---- MODULE Spec2Model ----
(***************************************************************************)
(* A model of src/worker.js: the HTTP router and the resource handlers of  *)
(* the artist admin API, over an object-storage bucket (R2).               *)
(*                                                                         *)
(* A request is a record that walks through its handler one storage call  *)
(* at a time; every storage call may throw.  Request bodies are well       *)
(* formed JSON objects (request.json() and request.formData() succeed).    *)
(***************************************************************************)
EXTENDS Integers, Sequences, FiniteSets, TLC

\* ------------------------------------------------------------------ bounds

\* Requests started in a run that handles one request at a time.
MaxReqs == 2
\* Requests started in a run that interleaves requests.
MaxConcReqs == 2
\* Storage calls that throw in a run.
MaxFailures == 1

\* ------------------------------------------------------------------ values

Procs == {1, 2}

\* The ids of artists: what generateId returns in createArtist and what
\* clients put in paths.
ArtistIds == {"a", "b"}
\* The ids of photos: what generateId returns in uploadPhoto and what clients
\* put in paths and bodies.  One is a prefix of the other.
PhotoIds == {"p", "pq"}

Undefined == "undefined"

\* Filmography documents a client sends.
FilmA == [dramas |-> <<"A">>, movies |-> <<>>, commercials |-> <<>>]
FilmPartial == [movies |-> <<"B">>]
FilmDocs == {FilmA, FilmPartial}

\* A default that lacks a member.
EmptyFilmographyShort == [dramas |-> <<>>, movies |-> <<>>]

\* getFilmography's literal for an artist without a document.
EmptyFilmography == [dramas |-> <<>>, movies |-> <<>>, commercials |-> <<>>]

\* Uploaded files: name and MIME type (the bytes are named after the file).
Files == {[name |-> "x.png", type |-> "image/png"],
          [name |-> "noext", type |-> "image/jpeg"]}

\* ------------------------------------------------------------------ strings

StartsWith(s, prefix) ==
    Len(prefix) <= Len(s) /\ SubSeq(s, 1, Len(prefix)) = prefix

CharAt(s, i) == SubSeq(s, i, i)

\* The characters of keys, in code-unit order.
CharOrder == "./0123456789abcdefghijklmnopqrstuvwxyz"

CharRank(c) == CHOOSE i \in 1..Len(CharOrder) : CharAt(CharOrder, i) = c

RECURSIVE KeyLessFrom(_, _, _)
KeyLessFrom(s, t, i) ==
    IF i > Len(s) THEN i <= Len(t)
    ELSE IF i > Len(t) THEN FALSE
    ELSE IF CharAt(s, i) = CharAt(t, i) THEN KeyLessFrom(s, t, i + 1)
    ELSE CharRank(CharAt(s, i)) < CharRank(CharAt(t, i))

KeyLess(s, t) == KeyLessFrom(s, t, 1)

RECURSIVE SortKeys(_)
SortKeys(S) ==
    IF S = {} THEN <<>>
    ELSE LET m == CHOOSE x \in S : \A y \in S \ {x} : KeyLess(x, y)
         IN <<m>> \o SortKeys(S \ {m})

\* The index of the last occurrence of character c in s, 0 when there is none.
RECURSIVE LastIndexOf(_, _, _)
LastIndexOf(s, c, i) ==
    IF i = 0 THEN 0
    ELSE IF CharAt(s, i) = c THEN i
    ELSE LastIndexOf(s, c, i - 1)

RECURSIVE FirstIndexOf(_, _, _)
FirstIndexOf(s, c, i) ==
    IF i > Len(s) THEN 0
    ELSE IF CharAt(s, i) = c THEN i
    ELSE FirstIndexOf(s, c, i + 1)

\* name.split('.').pop(): the text after the last '.', the whole name when
\* there is no '.'.
SplitDotPop(name) ==
    SubSeq(name, LastIndexOf(name, ".", Len(name)) + 1, Len(name))

\* ------------------------------------------------------------------ router

routes == <<
    [pattern |-> "GET /api/artists",                     handler |-> "getArtists"],
    [pattern |-> "POST /api/artists",                    handler |-> "createArtist"],
    [pattern |-> "GET /api/artists/(.+)",                handler |-> "getArtist"],
    [pattern |-> "PUT /api/artists/(.+)",                handler |-> "updateArtist"],
    [pattern |-> "DELETE /api/artists/(.+)",             handler |-> "deleteArtist"],
    [pattern |-> "GET /api/artists/(.+)/photos",         handler |-> "getArtistPhotos"],
    [pattern |-> "POST /api/artists/(.+)/photos",        handler |-> "uploadPhoto"],
    [pattern |-> "DELETE /api/artists/(.+)/photos/(.+)", handler |-> "deletePhoto"],
    [pattern |-> "PUT /api/artists/(.+)/main-photo",     handler |-> "setMainPhoto"],
    [pattern |-> "GET /api/artists/(.+)/filmography",    handler |-> "getFilmography"],
    [pattern |-> "PUT /api/artists/(.+)/filmography",    handler |-> "updateFilmography"],
    [pattern |-> "GET /api/export/artists",              handler |-> "exportArtistsData"],
    [pattern |-> "GET /api/export/filmography",          handler |-> "exportFilmographyData"] >>

\* routePattern.split(' ')
RouteMethod(pattern) == SubSeq(pattern, 1, FirstIndexOf(pattern, " ", 1) - 1)
RoutePath(pattern) ==
    SubSeq(pattern, FirstIndexOf(pattern, " ", 1) + 1, Len(pattern))

Group == "([^/]+)"

\* routePath.replace(/\(.+\)/g, '([^/]+)'): the regular expression \(.+\) is
\* greedy, so one match runs from the first '(' to the last ')' that has at
\* least one character between them; after it no ')' is left to match again.
ReplaceCaptures(routePath) ==
    LET open == FirstIndexOf(routePath, "(", 1)
        close == LastIndexOf(routePath, ")", Len(routePath))
    IN IF open > 0 /\ close >= open + 2
       THEN SubSeq(routePath, 1, open - 1) \o Group
                \o SubSeq(routePath, close + 1, Len(routePath))
       ELSE routePath

\* The number of characters other than '/' of path from position si on.
RECURSIVE SegmentRun(_, _)
SegmentRun(path, si) ==
    IF si > Len(path) \/ CharAt(path, si) = "/" THEN 0
    ELSE 1 + SegmentRun(path, si + 1)

NoMatch == [ok |-> FALSE, params |-> <<>>]

\* path.match(new RegExp('^' + pat + '$')) for a pattern of literal
\* characters and ([^/]+) groups: a group takes the longest run first and
\* backs off.
RECURSIVE MatchAt(_, _, _, _)
RECURSIVE TryLen(_, _, _, _, _)
MatchAt(pat, path, pi, si) ==
    IF pi > Len(pat)
    THEN IF si > Len(path) THEN [ok |-> TRUE, params |-> <<>>] ELSE NoMatch
    ELSE IF StartsWith(SubSeq(pat, pi, Len(pat)), Group)
    THEN TryLen(pat, path, pi, si, SegmentRun(path, si))
    ELSE IF si <= Len(path) /\ CharAt(pat, pi) = CharAt(path, si)
    THEN MatchAt(pat, path, pi + 1, si + 1)
    ELSE NoMatch

TryLen(pat, path, pi, si, k) ==
    IF k < 1 THEN NoMatch
    ELSE LET rest == MatchAt(pat, path, pi + Len(Group), si + k)
         IN IF rest.ok
            THEN [ok |-> TRUE,
                  params |-> <<SubSeq(path, si, si + k - 1)>> \o rest.params]
            ELSE TryLen(pat, path, pi, si, k - 1)

RegexMatch(routePath, path) == MatchAt(ReplaceCaptures(routePath), path, 1, 1)

RouteMatches(i, method, path) ==
    /\ method = RouteMethod(routes[i].pattern)
    /\ RegexMatch(RoutePath(routes[i].pattern), path).ok

\* handleApiRequest's loop: the first entry of the table that matches, 0
\* when none does.
FirstRoute(method, path) ==
    IF \E i \in 1..Len(routes) : RouteMatches(i, method, path)
    THEN CHOOSE i \in 1..Len(routes) :
            /\ RouteMatches(i, method, path)
            /\ \A j \in 1..(i - 1) : ~RouteMatches(j, method, path)
    ELSE 0

\* handler(...params): a parameter the match does not supply is undefined.
Param(params, k) == IF k <= Len(params) THEN params[k] ELSE Undefined

\* ------------------------------------------------------------------ JSON

\* An optional value: None for a field that is absent (undefined).
None == <<>>
Some(v) == <<v>>

FilmKeys == <<"dramas", "movies", "commercials">>

\* JSON.stringify of a filmography document: its members as (key, value)
\* pairs.
JSONStringifyFilm(doc) ==
    LET keep == SelectSeq(FilmKeys, LAMBDA k : k \in DOMAIN doc)
    IN [i \in 1..Len(keep) |-> <<keep[i], doc[keep[i]]>>]

JSONParseFilm(text) ==
    [k \in {text[i][1] : i \in 1..Len(text)} |->
        text[CHOOSE i \in 1..Len(text) : text[i][1] = k][2]]

HasMember(text, k) == \E i \in 1..Len(text) : text[i][1] = k
Member(text, k) == text[CHOOSE i \in 1..Len(text) : text[i][1] = k][2]

\* JSON.stringify of an artist record: a member whose value is undefined is
\* left out.
JSONStringifyArtist(a) ==
    <<  <<"id", a.id>>, <<"name", a.name>>,
        <<"createdAt", a.createdAt>>, <<"updatedAt", a.updatedAt>> >>
    \o (IF a.filmography = None THEN <<>>
        ELSE << <<"filmography", JSONStringifyFilm(a.filmography[1])>> >>)
    \o (IF a.mainPhoto = None THEN <<>>
        ELSE << <<"mainPhoto", a.mainPhoto[1]>> >>)

JSONParseArtist(text) ==
    [id |-> Member(text, "id"),
     name |-> Member(text, "name"),
     createdAt |-> Member(text, "createdAt"),
     updatedAt |-> Member(text, "updatedAt"),
     filmography |-> IF HasMember(text, "filmography")
                     THEN Some(JSONParseFilm(Member(text, "filmography")))
                     ELSE None,
     mainPhoto |-> IF HasMember(text, "mainPhoto")
                   THEN Some(Member(text, "mainPhoto"))
                   ELSE None]

JSONStringifyArtists(artists) ==
    [i \in 1..Len(artists) |-> JSONStringifyArtist(artists[i])]

JSONParseArtists(text) ==
    [i \in 1..Len(text) |-> JSONParseArtist(text[i])]

\* What a client reads from a Response built with JSON.stringify(v).
ArtistsBody(artists) == JSONParseArtists(JSONStringifyArtists(artists))
ArtistBody(a) == JSONParseArtist(JSONStringifyArtist(a))
FilmBody(doc) == JSONParseFilm(JSONStringifyFilm(doc))

\* ------------------------------------------------------------------ storage

ArtistsKey == "data/artists.json"
FilmographyKey(artistId) == "data/filmography/" \o artistId \o ".json"
ArtistPrefix(artistId) == "artists/" \o artistId \o "/"
PhotosPrefix(artistId) == "artists/" \o artistId \o "/photos/"
PhotoPrefix(artistId, photoId) ==
    "artists/" \o artistId \o "/photos/" \o photoId
\* A key outside the photos folder of the artist.
PhotoKeyFlat(artistId, photoId, ext) ==
    "artists/" \o artistId \o "/" \o photoId \o "." \o ext

PhotoKey(artistId, photoId, ext) ==
    "artists/" \o artistId \o "/photos/" \o photoId \o "." \o ext
MainPhotoKey(artistId) == "artists/" \o artistId \o "/main.jpg"

JsonType == "application/json"

\* bucket.put(key, data, {httpMetadata: {contentType}})
BucketPut(b, key, body, contentType) ==
    (key :> [body |-> body, contentType |-> contentType]) @@ b

\* bucket.delete(key): deleting a key that is not there succeeds.
BucketDelete(b, key) == [k \in DOMAIN b \ {key} |-> b[k]]

\* bucket.list({prefix}).objects: the keys with the prefix, in key order.
BucketList(b, prefix) == SortKeys({k \in DOMAIN b : StartsWith(k, prefix)})

\* getR2Object: the text of the object; null (some = FALSE) when the key is
\* not there and also when the read throws.
getR2Object(b, key, ok) ==
    IF ok /\ key \in DOMAIN b
    THEN [some |-> TRUE, text |-> b[key].body]
    ELSE [some |-> FALSE, text |-> <<>>]

putR2Object(b, key, data) == BucketPut(b, key, data, JsonType)

deleteR2Object(b, key) == BucketDelete(b, key)

getR2ObjectUrl(key) == "https://your-r2-domain.com/" \o key

\* getMainPhotoUrl: the URL when main.jpg is there; null (None) when it is
\* not and also when the read throws.
getMainPhotoUrl(artistId, b, ok) ==
    IF ok /\ MainPhotoKey(artistId) \in DOMAIN b
    THEN Some(getR2ObjectUrl(MainPhotoKey(artistId)))
    ELSE None

\* const artists = artistsData ? JSON.parse(artistsData) : []
ReadArtists(b, ok) ==
    LET artistsData == getR2Object(b, ArtistsKey, ok)
    IN IF artistsData.some THEN JSONParseArtists(artistsData.text) ELSE <<>>

\* ------------------------------------------------------------------ requests

\* A request: its inputs, the place it has reached in its handler (pc), the
\* handler's local variables, its response, and what it did to the bucket.
NewRequest(n, method, path, op, artistId, photoId, body, genId, fresh) ==
    [n |-> n, method |-> method, path |-> path, op |-> op,
     artistId |-> artistId, photoId |-> photoId, body |-> body,
     genId |-> genId, fresh |-> fresh,
     pc |-> "start", artists |-> <<>>, i |-> 0, keys |-> <<>>,
     tmp |-> None, acc |-> <<>>,
     status |-> 0, resp |-> <<>>,
     writes |-> <<>>, calls |-> 0, failed |-> FALSE]

Idle == [NewRequest(0, "", "", "idle", Undefined, Undefined, <<>>,
                    Undefined, FALSE) EXCEPT !.pc = "idle"]

\* new Response(JSON.stringify(body), {status})
Respond(r, status, body) ==
    [r EXCEPT !.pc = "done", !.status = status, !.resp = body]

Error(r, status, message) == Respond(r, status, [error |-> message])

Wrote(r, kind, key) == [r EXCEPT !.writes = Append(@, <<kind, key>>)]

\* new Date().toISOString(): time is counted in requests.
Now(r) == r.n

IndexOfId(artists, artistId) ==
    IF \E i \in 1..Len(artists) : artists[i].id = artistId
    THEN CHOOSE i \in 1..Len(artists) :
            /\ artists[i].id = artistId
            /\ \A j \in 1..(i - 1) : artists[j].id # artistId
    ELSE 0

\* ------------------------------------------------------------------ handlers
\* Each handler is a function of the request r, the bucket b and whether
\* the storage call of this step succeeds (ok); it gives the request and
\* the bucket after the step.

getArtists(r, b, ok) ==
    IF r.pc = "start"
    THEN LET artists == ReadArtists(b, ok)
         IN IF artists = <<>>
            THEN [r |-> Respond(r, 200, ArtistsBody(artists)), b |-> b]
            ELSE [r |-> [r EXCEPT !.pc = "main", !.artists = artists, !.i = 1],
                  b |-> b]
    ELSE LET mainPhotoUrl == getMainPhotoUrl(r.artists[r.i].id, b, ok)
             artists == IF mainPhotoUrl # None
                        THEN [r.artists EXCEPT ![r.i].mainPhoto = mainPhotoUrl]
                        ELSE r.artists
         IN IF r.i = Len(artists)
            THEN [r |-> Respond([r EXCEPT !.artists = artists], 200,
                                ArtistsBody(artists)),
                  b |-> b]
            ELSE [r |-> [r EXCEPT !.artists = artists, !.i = r.i + 1], b |-> b]

\* A record that leaves the name of the body out.
newArtistUnnamed(r) ==
    [id |-> r.genId, name |-> Undefined,
     createdAt |-> Now(r), updatedAt |-> Now(r),
     filmography |-> None, mainPhoto |-> None]

newArtist(r) ==
    [id |-> r.genId, name |-> r.body.name,
     createdAt |-> Now(r), updatedAt |-> Now(r),
     filmography |-> None, mainPhoto |-> None]

\* A create that puts the new record first (unshift for push).
pushNewArtistFirst(r, b) == <<newArtist(r)>> \o r.artists

\* A create that reads the collection again when it writes.
pushNewArtistOnStored(r, b) == Append(ReadArtists(b, TRUE), newArtist(r))

\* existingArtists.push(newArtist): the list getArtists gave, with the new
\* record last.  The bucket is not read again.
pushNewArtist(r, b) == Append(r.artists, newArtist(r))

createArtist(r, b, ok) ==
    CASE r.pc \in {"start", "main"} ->
            \* getArtists(env).then(res => res.json())
            LET g == getArtists(r, b, ok)
            IN IF g.r.pc # "done" THEN g
               ELSE IF g.r.status # 200
               THEN [r |-> Error(r, 500, "Failed to create artist"), b |-> g.b]
               ELSE [r |-> [g.r EXCEPT !.pc = "put", !.status = 0,
                                       !.artists = g.r.resp, !.resp = <<>>],
                     b |-> g.b]
      [] r.pc = "put" ->
            LET existingArtists == pushNewArtist(r, b)
            IN IF ~ok
               THEN [r |-> Error(r, 500, "Failed to create artist"), b |-> b]
               ELSE LET b2 == putR2Object(b, ArtistsKey,
                                          JSONStringifyArtists(existingArtists))
                        r2 == Wrote([r EXCEPT !.artists = existingArtists],
                                    "put", ArtistsKey)
                    IN IF r.body.filmography # None
                       THEN [r |-> [r2 EXCEPT !.pc = "putFilm"], b |-> b2]
                       ELSE [r |-> Respond(r2, 200, [success |-> TRUE,
                                                     artistId |-> r.genId]),
                             b |-> b2]
      [] r.pc = "putFilm" ->
            IF ~ok
            THEN [r |-> Error(r, 500, "Failed to create artist"), b |-> b]
            ELSE [r |-> Respond(Wrote(r, "put", FilmographyKey(r.genId)), 200,
                                [success |-> TRUE, artistId |-> r.genId]),
                  b |-> putR2Object(b, FilmographyKey(r.genId),
                                    JSONStringifyFilm(r.body.filmography[1]))]

getArtist(r, b, ok) ==
    CASE r.pc = "start" ->
            LET artists == ReadArtists(b, ok)
                k == IndexOfId(artists, r.artistId)
            IN IF k = 0
               THEN [r |-> Error(r, 404, "Artist not found"), b |-> b]
               ELSE [r |-> [r EXCEPT !.pc = "film", !.artists = <<artists[k]>>],
                     b |-> b]
      [] r.pc = "film" ->
            LET filmographyData == getR2Object(b, FilmographyKey(r.artistId), ok)
                artist == IF filmographyData.some
                          THEN [r.artists[1] EXCEPT !.filmography =
                                    Some(JSONParseFilm(filmographyData.text))]
                          ELSE r.artists[1]
            IN [r |-> [r EXCEPT !.pc = "photo", !.artists = <<artist>>], b |-> b]
      [] r.pc = "photo" ->
            LET mainPhotoUrl == getMainPhotoUrl(r.artistId, b, ok)
                artist == IF mainPhotoUrl # None
                          THEN [r.artists[1] EXCEPT !.mainPhoto = mainPhotoUrl]
                          ELSE r.artists[1]
            IN [r |-> Respond([r EXCEPT !.artists = <<artist>>], 200,
                              ArtistBody(artist)),
                b |-> b]

\* {...artists[artistIndex], ...updateData, updatedAt: now}
MergeArtist(old, updateData, now) ==
    [id |-> IF "id" \in DOMAIN updateData THEN updateData.id ELSE old.id,
     name |-> IF "name" \in DOMAIN updateData THEN updateData.name ELSE old.name,
     createdAt |-> old.createdAt,
     updatedAt |-> now,
     filmography |-> IF "filmography" \in DOMAIN updateData
                     THEN Some(updateData.filmography)
                     ELSE old.filmography,
     mainPhoto |-> old.mainPhoto]

\* The steps of updateArtist after the record has been merged: the write of
\* the collection, then of the filmography when the body has one.
updateArtistWrite(r, b, ok) ==
    IF ~ok
    THEN [r |-> Error(r, 500, "Failed to update artist"), b |-> b]
    ELSE IF r.pc = "put"
    THEN LET b2 == putR2Object(b, ArtistsKey, JSONStringifyArtists(r.artists))
             r2 == Wrote(r, "put", ArtistsKey)
         IN IF "filmography" \in DOMAIN r.body
            THEN [r |-> [r2 EXCEPT !.pc = "putFilm"], b |-> b2]
            ELSE [r |-> Respond(r2, 200, [success |-> TRUE]), b |-> b2]
    ELSE [r |-> Respond(Wrote(r, "put", FilmographyKey(r.artistId)),
                        200, [success |-> TRUE]),
          b |-> putR2Object(b, FilmographyKey(r.artistId),
                            JSONStringifyFilm(r.body.filmography))]

\* An update without the check of the index: an id that matches no record
\* goes on to the writes.
updateArtistUnchecked(r, b, ok) ==
    IF r.pc = "start"
    THEN LET artists == ReadArtists(b, ok)
             artistIndex == IndexOfId(artists, r.artistId)
         IN [r |-> [r EXCEPT !.pc = "put",
                             !.artists =
                                 IF artistIndex = 0 THEN artists
                                 ELSE [artists EXCEPT ![artistIndex] =
                                         MergeArtist(artists[artistIndex],
                                                     r.body, Now(r))]],
             b |-> b]
    ELSE updateArtistWrite(r, b, ok)

updateArtist(r, b, ok) ==
    CASE r.pc = "start" ->
            LET artists == ReadArtists(b, ok)
                artistIndex == IndexOfId(artists, r.artistId)
            IN IF artistIndex = 0
               THEN [r |-> Error(r, 404, "Artist not found"), b |-> b]
               ELSE [r |-> [r EXCEPT !.pc = "put",
                                     !.artists = [artists EXCEPT ![artistIndex] =
                                         MergeArtist(artists[artistIndex],
                                                     r.body, Now(r))]],
                     b |-> b]
      [] OTHER -> updateArtistWrite(r, b, ok)

\* A delete that removes the first record with the id only.
filteredArtistsFirstOnly(artists, artistId) ==
    LET k == IndexOfId(artists, artistId)
    IN IF k = 0 THEN artists
       ELSE SubSeq(artists, 1, k - 1) \o SubSeq(artists, k + 1, Len(artists))

\* artists.filter(a => a.id !== artistId)
filteredArtists(artists, artistId) ==
    SelectSeq(artists, LAMBDA a : a.id # artistId)

deleteArtist(r, b, ok) ==
    CASE r.pc = "start" ->
            [r |-> [r EXCEPT !.pc = "put",
                             !.artists = filteredArtists(ReadArtists(b, ok),
                                                         r.artistId)],
             b |-> b]
      [] r.pc = "put" ->
            IF ~ok
            THEN [r |-> Error(r, 500, "Failed to delete artist"), b |-> b]
            ELSE [r |-> [Wrote(r, "put", ArtistsKey) EXCEPT !.pc = "delFilm"],
                  b |-> putR2Object(b, ArtistsKey,
                                    JSONStringifyArtists(r.artists))]
      [] r.pc = "delFilm" ->
            IF ~ok
            THEN [r |-> Error(r, 500, "Failed to delete artist"), b |-> b]
            ELSE [r |-> [Wrote(r, "delete", FilmographyKey(r.artistId))
                            EXCEPT !.pc = "list"],
                  b |-> deleteR2Object(b, FilmographyKey(r.artistId))]
      [] r.pc = "list" ->
            \* a failure in here is caught by the inner try and only logged
            LET keys == BucketList(b, ArtistPrefix(r.artistId))
            IN IF ~ok \/ keys = <<>>
               THEN [r |-> Respond(r, 200, [success |-> TRUE]), b |-> b]
               ELSE [r |-> [r EXCEPT !.pc = "delPhotos", !.keys = keys, !.i = 1],
                     b |-> b]
      [] r.pc = "delPhotos" ->
            IF ~ok
            THEN [r |-> Respond(r, 200, [success |-> TRUE]), b |-> b]
            ELSE LET r2 == Wrote(r, "delete", r.keys[r.i])
                     b2 == deleteR2Object(b, r.keys[r.i])
                 IN IF r.i = Len(r.keys)
                    THEN [r |-> Respond(r2, 200, [success |-> TRUE]), b |-> b2]
                    ELSE [r |-> [r2 EXCEPT !.i = r.i + 1], b |-> b2]

\* object.key.split('/').pop().split('.')[0]
PhotoIdOfKey(key) ==
    LET file == SubSeq(key, LastIndexOf(key, "/", Len(key)) + 1, Len(key))
        dot == FirstIndexOf(file, ".", 1)
    IN IF dot = 0 THEN file ELSE SubSeq(file, 1, dot - 1)

getArtistPhotos(r, b, ok) ==
    IF ~ok
    THEN [r |-> Error(r, 500, "Failed to get photos"), b |-> b]
    ELSE LET keys == BucketList(b, PhotosPrefix(r.artistId))
         IN [r |-> Respond([r EXCEPT !.keys = keys], 200,
                           [i \in 1..Len(keys) |->
                               [id |-> PhotoIdOfKey(keys[i]),
                                url |-> getR2ObjectUrl(keys[i]),
                                isMain |-> FALSE]]),
             b |-> b]

\* photo.name.split('.').pop() || 'jpg'
FileExtension(name) ==
    IF SplitDotPop(name) = "" THEN "jpg" ELSE SplitDotPop(name)

\* The step of uploadPhoto issues a storage call only when the form has a
\* photo.
uploadPhoto(r, b, ok) ==
    IF r.body.photo = None
    THEN [r |-> Error(r, 400, "No photo provided"), b |-> b]
    ELSE LET photo == r.body.photo[1]
             key == PhotoKey(r.artistId, r.genId, FileExtension(photo.name))
         IN IF ~ok
            THEN [r |-> Error(r, 500, "Failed to upload photo"), b |-> b]
            ELSE [r |-> Respond(Wrote(r, "put", key), 200,
                                [success |-> TRUE, photoId |-> r.genId,
                                 url |-> getR2ObjectUrl(key)]),
                  b |-> BucketPut(b, key, photo.name, photo.type)]

deletePhoto(r, b, ok) ==
    IF r.pc = "start"
    THEN LET keys == BucketList(b, PhotoPrefix(r.artistId, r.photoId))
         IN IF ~ok
            THEN [r |-> Error(r, 500, "Failed to delete photo"), b |-> b]
            ELSE IF keys = <<>>
            THEN [r |-> Respond(r, 200, [success |-> TRUE]), b |-> b]
            ELSE [r |-> [r EXCEPT !.pc = "del", !.keys = keys, !.i = 1], b |-> b]
    ELSE IF ~ok
    THEN [r |-> Error(r, 500, "Failed to delete photo"), b |-> b]
    ELSE LET r2 == Wrote(r, "delete", r.keys[r.i])
             b2 == deleteR2Object(b, r.keys[r.i])
         IN IF r.i = Len(r.keys)
            THEN [r |-> Respond(r2, 200, [success |-> TRUE]), b |-> b2]
            ELSE [r |-> [r2 EXCEPT !.i = r.i + 1], b |-> b2]

\* A copy that takes the last object of the listing, not the first.
setMainPhotoLastMatch(r, b, ok) ==
    CASE r.pc = "start" ->
            LET keys == BucketList(b, PhotoPrefix(r.artistId, r.body.photoId))
            IN IF ~ok
               THEN [r |-> Error(r, 500, "Failed to set main photo"), b |-> b]
               ELSE IF keys = <<>>
               THEN [r |-> Error(r, 404, "Photo not found"), b |-> b]
               ELSE [r |-> [r EXCEPT !.pc = "get", !.keys = keys], b |-> b]
      [] r.pc = "get" ->
            LET sourceKey == r.keys[Len(r.keys)]
            IN IF ~ok
               THEN [r |-> Error(r, 500, "Failed to set main photo"), b |-> b]
               ELSE IF sourceKey \notin DOMAIN b
               THEN [r |-> Error(r, 404, "Photo not found"), b |-> b]
               ELSE [r |-> [r EXCEPT !.pc = "put", !.tmp = Some(b[sourceKey])],
                     b |-> b]
      [] r.pc = "put" ->
            LET mainPhotoKey == MainPhotoKey(r.artistId)
                sourceObject == r.tmp[1]
            IN IF ~ok
               THEN [r |-> Error(r, 500, "Failed to set main photo"), b |-> b]
               ELSE [r |-> Respond(Wrote(r, "put", mainPhotoKey), 200,
                                   [success |-> TRUE]),
                     b |-> BucketPut(b, mainPhotoKey, sourceObject.body,
                                     sourceObject.contentType)]

setMainPhoto(r, b, ok) ==
    CASE r.pc = "start" ->
            LET keys == BucketList(b, PhotoPrefix(r.artistId, r.body.photoId))
            IN IF ~ok
               THEN [r |-> Error(r, 500, "Failed to set main photo"), b |-> b]
               ELSE IF keys = <<>>
               THEN [r |-> Error(r, 404, "Photo not found"), b |-> b]
               ELSE [r |-> [r EXCEPT !.pc = "get", !.keys = keys], b |-> b]
      [] r.pc = "get" ->
            LET sourceKey == r.keys[1]
            IN IF ~ok
               THEN [r |-> Error(r, 500, "Failed to set main photo"), b |-> b]
               ELSE IF sourceKey \notin DOMAIN b
               THEN [r |-> Error(r, 404, "Photo not found"), b |-> b]
               ELSE [r |-> [r EXCEPT !.pc = "put", !.tmp = Some(b[sourceKey])],
                     b |-> b]
      [] r.pc = "put" ->
            LET mainPhotoKey == MainPhotoKey(r.artistId)
                sourceObject == r.tmp[1]
            IN IF ~ok
               THEN [r |-> Error(r, 500, "Failed to set main photo"), b |-> b]
               ELSE [r |-> Respond(Wrote(r, "put", mainPhotoKey), 200,
                                   [success |-> TRUE]),
                     b |-> BucketPut(b, mainPhotoKey, sourceObject.body,
                                     sourceObject.contentType)]

\* filmographyData ? JSON.parse(filmographyData) : {dramas, movies, commercials}
FilmographyOrEmpty(b, artistId, ok) ==
    LET filmographyData == getR2Object(b, FilmographyKey(artistId), ok)
    IN IF filmographyData.some
       THEN JSONParseFilm(filmographyData.text)
       ELSE EmptyFilmography

getFilmography(r, b, ok) ==
    [r |-> Respond(r, 200, FilmBody(FilmographyOrEmpty(b, r.artistId, ok))),
     b |-> b]

\* An update that keeps the members of the stored document the body does
\* not have.
updateFilmographyMerged(r, b, ok) ==
    IF ~ok
    THEN [r |-> Error(r, 500, "Failed to update filmography"), b |-> b]
    ELSE LET old == getR2Object(b, FilmographyKey(r.artistId), TRUE)
             stored == IF old.some THEN JSONParseFilm(old.text) ELSE <<>>
             merged == [k \in DOMAIN stored \cup DOMAIN r.body |->
                           IF k \in DOMAIN r.body THEN r.body[k] ELSE stored[k]]
         IN [r |-> Respond(Wrote(r, "put", FilmographyKey(r.artistId)), 200,
                           [success |-> TRUE]),
             b |-> putR2Object(b, FilmographyKey(r.artistId),
                               JSONStringifyFilm(merged))]

updateFilmography(r, b, ok) ==
    IF ~ok
    THEN [r |-> Error(r, 500, "Failed to update filmography"), b |-> b]
    ELSE [r |-> Respond(Wrote(r, "put", FilmographyKey(r.artistId)), 200,
                        [success |-> TRUE]),
          b |-> putR2Object(b, FilmographyKey(r.artistId),
                            JSONStringifyFilm(r.body))]

\* The fixed text appended to the name in the export title.
TitleSuffix == " - Arclead artist"

exportArtistsData(r, b, ok) ==
    CASE r.pc = "start" ->
            LET artists == ReadArtists(b, ok)
            IN IF artists = <<>>
               THEN [r |-> Respond(r, 200, <<>>), b |-> b]
               ELSE [r |-> [r EXCEPT !.pc = "film", !.artists = artists, !.i = 1],
                     b |-> b]
      [] r.pc = "film" ->
            [r |-> [r EXCEPT !.pc = "photo",
                             !.tmp = Some(FilmographyOrEmpty(
                                         b, r.artists[r.i].id, ok))],
             b |-> b]
      [] r.pc = "photo" ->
            LET artist == r.artists[r.i]
                mainPhotoUrl == getMainPhotoUrl(artist.id, b, ok)
                exportData ==
                    (artist.name :>
                        [title |-> artist.name \o TitleSuffix,
                         filmography |-> FilmBody(r.tmp[1]),
                         mainPhoto |-> mainPhotoUrl]) @@ r.acc
            IN IF r.i = Len(r.artists)
               THEN [r |-> Respond([r EXCEPT !.acc = exportData], 200,
                                   exportData),
                     b |-> b]
               ELSE [r |-> [r EXCEPT !.pc = "film", !.acc = exportData,
                                     !.i = r.i + 1],
                     b |-> b]

\* An export in which the first record with a name keeps its entry.
exportFilmographyDataFirstWins(r, b, ok) ==
    IF r.pc = "start"
    THEN LET artists == ReadArtists(b, ok)
         IN IF artists = <<>>
            THEN [r |-> Respond(r, 200, <<>>), b |-> b]
            ELSE [r |-> [r EXCEPT !.pc = "film", !.artists = artists, !.i = 1],
                  b |-> b]
    ELSE LET artist == r.artists[r.i]
             data == getR2Object(b, FilmographyKey(artist.id), ok)
             filmographyData ==
                 IF data.some
                 THEN r.acc @@ (artist.name :> JSONParseFilm(data.text))
                 ELSE r.acc
         IN IF r.i = Len(r.artists)
            THEN [r |-> Respond([r EXCEPT !.acc = filmographyData], 200,
                                filmographyData),
                  b |-> b]
            ELSE [r |-> [r EXCEPT !.acc = filmographyData, !.i = r.i + 1],
                  b |-> b]

exportFilmographyData(r, b, ok) ==
    IF r.pc = "start"
    THEN LET artists == ReadArtists(b, ok)
         IN IF artists = <<>>
            THEN [r |-> Respond(r, 200, <<>>), b |-> b]
            ELSE [r |-> [r EXCEPT !.pc = "film", !.artists = artists, !.i = 1],
                  b |-> b]
    ELSE LET artist == r.artists[r.i]
             data == getR2Object(b, FilmographyKey(artist.id), ok)
             filmographyData ==
                 IF data.some
                 THEN (artist.name :> JSONParseFilm(data.text)) @@ r.acc
                 ELSE r.acc
         IN IF r.i = Len(r.artists)
            THEN [r |-> Respond([r EXCEPT !.acc = filmographyData], 200,
                                filmographyData),
                  b |-> b]
            ELSE [r |-> [r EXCEPT !.acc = filmographyData, !.i = r.i + 1],
                  b |-> b]

\* handleApiRequest when no route matches.
notFound(r, b, ok) == [r |-> Error(r, 404, "Not Found"), b |-> b]

\* fetch: an OPTIONS request is answered at once, and a path outside /api/
\* gets the fixed text.
preflight(r, b, ok) == [r |-> Respond(r, 200, <<>>), b |-> b]
static(r, b, ok) == [r |-> Respond(r, 200, "Arclead Entertainment API"), b |-> b]

\* ------------------------------------------------------------------ inputs

Handlers == {routes[i].handler : i \in 1..Len(routes)}

Methods == {"GET", "POST", "PUT", "DELETE", "OPTIONS"}

Paths == {"/api/artists", "/api/artists/", "/api/artists/a",
          "/api/artists/a/photos", "/api/artists/a/photos/p",
          "/api/artists/a/main-photo", "/api/artists/a/filmography",
          "/api/export/artists", "/api/export/filmography",
          "/api/nothing", "/"}

\* The requests that come in through fetch: one for each entry of the route
\* table, and requests no entry is written for.
FetchRequests == {
    <<"GET", "/api/artists">>, <<"POST", "/api/artists">>,
    <<"GET", "/api/artists/a">>, <<"PUT", "/api/artists/a">>,
    <<"DELETE", "/api/artists/a">>,
    <<"GET", "/api/artists/a/photos">>, <<"POST", "/api/artists/a/photos">>,
    <<"DELETE", "/api/artists/a/photos/p">>,
    <<"PUT", "/api/artists/a/main-photo">>,
    <<"GET", "/api/artists/a/filmography">>,
    <<"PUT", "/api/artists/a/filmography">>,
    <<"GET", "/api/export/artists">>, <<"GET", "/api/export/filmography">>,
    <<"GET", "/api/artists/">>, <<"DELETE", "/api/artists">>,
    <<"POST", "/api/artists/a/photos/p">>, <<"GET", "/api/nothing">>,
    <<"OPTIONS", "/api/artists">>, <<"GET", "/">> }

UpdateBodies == {[name |-> "Lee"], [id |-> "a"], [filmography |-> FilmA]}

\* The bodies a client sends to a handler.
Bodies(op) ==
    CASE op = "createArtist" ->
            {[name |-> "Kim", filmography |-> None],
             [name |-> "Kim", filmography |-> Some(FilmPartial)],
             [name |-> "Lee", filmography |-> None]}
      [] op = "updateArtist" -> UpdateBodies
      [] op = "uploadPhoto" ->
            {[photo |-> None]} \cup {[photo |-> Some(f)] : f \in Files}
      [] op = "setMainPhoto" -> {[photoId |-> x] : x \in PhotoIds}
      [] op = "updateFilmography" -> FilmDocs
      [] OTHER -> {<<>>}

\* The body sent with a request that comes in through fetch.
FetchBodies(op) ==
    CASE op = "createArtist" -> {[name |-> "Kim", filmography |-> None]}
      [] op = "updateArtist" -> {[name |-> "Lee"]}
      [] op = "uploadPhoto" -> {[photo |-> Some([name |-> "x.png",
                                                 type |-> "image/png"])]}
      [] op = "setMainPhoto" -> {[photoId |-> "p"]}
      [] op = "updateFilmography" -> {FilmA}
      [] OTHER -> {<<>>}

\* What generateId can return in this request (undefined when the handler
\* does not call it).
GeneratedIds(op, body) ==
    IF op = "createArtist" THEN ArtistIds
    ELSE IF op = "uploadPhoto" /\ body.photo # None THEN PhotoIds
    ELSE {Undefined}

TakesArtistId(op) ==
    op \in Handlers \ {"getArtists", "createArtist",
                       "exportArtistsData", "exportFilmographyData"}

\* ------------------------------------------------------------------ seeds

\* The handler of a request, applied.
StepOf(r, b, ok) ==
    CASE r.op = "getArtists" -> getArtists(r, b, ok)
      [] r.op = "createArtist" -> createArtist(r, b, ok)
      [] r.op = "getArtist" -> getArtist(r, b, ok)
      [] r.op = "updateArtist" -> updateArtist(r, b, ok)
      [] r.op = "deleteArtist" -> deleteArtist(r, b, ok)
      [] r.op = "getArtistPhotos" -> getArtistPhotos(r, b, ok)
      [] r.op = "uploadPhoto" -> uploadPhoto(r, b, ok)
      [] r.op = "deletePhoto" -> deletePhoto(r, b, ok)
      [] r.op = "setMainPhoto" -> setMainPhoto(r, b, ok)
      [] r.op = "getFilmography" -> getFilmography(r, b, ok)
      [] r.op = "updateFilmography" -> updateFilmography(r, b, ok)
      [] r.op = "exportArtistsData" -> exportArtistsData(r, b, ok)
      [] r.op = "exportFilmographyData" -> exportFilmographyData(r, b, ok)
      [] r.op = "notFound" -> notFound(r, b, ok)
      [] r.op = "preflight" -> preflight(r, b, ok)
      [] r.op = "static" -> static(r, b, ok)

\* The bucket after the request has run to its response with no failure.
RECURSIVE RunToEnd(_, _)
RunToEnd(r, b) ==
    IF r.pc = "done" THEN b
    ELSE LET res == StepOf(r, b, TRUE) IN RunToEnd(res.r, res.b)

RECURSIVE RunScript(_, _, _)
RunScript(script, i, b) ==
    IF i > Len(script) THEN b
    ELSE RunScript(script, i + 1, RunToEnd(script[i], b))

SeedCreate(n, id, name, film) ==
    NewRequest(n, "", "", "createArtist", Undefined, Undefined,
               [name |-> name, filmography |-> film], id, TRUE)

SeedUpload(n, artistId, id, file) ==
    NewRequest(n, "", "", "uploadPhoto", artistId, Undefined,
               [photo |-> Some(file)], id, TRUE)

\* The histories the bucket starts from: requests served earlier, one at a
\* time.  The first is the empty bucket; the second leaves one artist with a
\* filmography, two photos and a main photo; the third leaves two records
\* with the same id.
SeedScripts == {
    <<>>,
    << SeedCreate(-4, "a", "Kim", Some(FilmA)),
       SeedUpload(-3, "a", "p", [name |-> "x.png", type |-> "image/png"]),
       SeedUpload(-2, "a", "pq", [name |-> "noext", type |-> "image/jpeg"]),
       NewRequest(-1, "", "", "setMainPhoto", "a", Undefined,
                  [photoId |-> "p"], Undefined, FALSE) >>,
    << SeedCreate(-3, "a", "Kim", None),
       SeedCreate(-2, "b", "Lee", None),
       NewRequest(-1, "", "", "updateArtist", "b", Undefined,
                  [id |-> "a"], Undefined, FALSE) >> }

SeedIds(script) ==
    {script[i].genId : i \in {j \in 1..Len(script) :
                                script[j].op = "createArtist"}}
    \cup {script[i].body.id : i \in {j \in 1..Len(script) :
                                script[j].op = "updateArtist"}}

\* ------------------------------------------------------------------ state

VARIABLES
    bucket,     \* the R2 bucket: key -> [body, contentType]
    req,        \* the requests in flight or answered, one per slot
    started,    \* the number of requests started
    used,       \* the artist ids that generateId has returned or a client has sent
    fails       \* the number of storage calls that have thrown

vars == <<bucket, req, started, used, fails>>

Running(r) == r.pc \notin {"idle", "done"}

\* The slot the next request takes: a slot that is not running, the one
\* whose request is the older.
FreeSlot(p) ==
    /\ ~Running(req[p])
    /\ \A q \in Procs \ {p} :
          \/ Running(req[q])
          \/ req[p].n < req[q].n
          \/ req[p].n = req[q].n /\ p < q

Init ==
    /\ \E script \in SeedScripts :
          /\ bucket = RunScript(script, 1, <<>>)
          /\ used = SeedIds(script)
    /\ req = [p \in Procs |-> Idle]
    /\ started = 0
    /\ fails = 0

Begin(p, r) ==
    /\ FreeSlot(p)
    /\ req' = [req EXCEPT ![p] = r]
    /\ started' = started + 1
    /\ used' = used
                \cup (IF r.op = "createArtist" THEN {r.genId} ELSE {})
                \cup (IF r.op = "updateArtist" /\ "id" \in DOMAIN r.body
                      THEN {r.body.id} ELSE {})
    /\ UNCHANGED <<bucket, fails>>

\* A handler called with its parameters.
Call(p) ==
    \E op \in Handlers :
    \E artistId \in (IF TakesArtistId(op) THEN ArtistIds ELSE {Undefined}) :
    \E photoId \in (IF op = "deletePhoto" THEN PhotoIds ELSE {Undefined}) :
    \E body \in Bodies(op) :
    \E genId \in GeneratedIds(op, body) :
        Begin(p, NewRequest(started + 1, "", "", op, artistId, photoId, body,
                            genId, genId \notin used))

\* fetch and handleApiRequest on a method and a path: the handler that is
\* invoked and the parameters it is given.
Dispatch(method, path) ==
    LET k == FirstRoute(method, path)
    IN IF method = "OPTIONS" THEN [op |-> "preflight", params |-> <<>>]
       ELSE IF ~StartsWith(path, "/api/") THEN [op |-> "static", params |-> <<>>]
       ELSE IF k = 0 THEN [op |-> "notFound", params |-> <<>>]
       ELSE [op |-> routes[k].handler,
             params |-> RegexMatch(RoutePath(routes[k].pattern), path).params]

\* Dispatch on the requests of the model, computed once.
Dispatched == [m \in Methods, path \in Paths |-> Dispatch(m, path)]

\* A request that comes in through fetch.
Fetch(p) ==
    \E request \in FetchRequests :
        LET method == request[1]
            path == request[2]
            d == Dispatched[method, path]
        IN \E body \in FetchBodies(d.op) :
           \E genId \in GeneratedIds(d.op, body) :
              Begin(p, NewRequest(started + 1, method, path, d.op,
                                  Param(d.params, 1), Param(d.params, 2), body,
                                  genId, genId \notin used))

\* Whether the next step of the request issues a storage call.
IssuesCall(r) ==
    /\ r.op \in Handlers
    /\ ~(r.op = "uploadPhoto" /\ r.body.photo = None)

\* One step of the request in slot p: res is what its handler gives when the
\* storage call of the step succeeds (ok) or throws.
Handle(p, ok, res) ==
    /\ ~ok => IssuesCall(req[p]) /\ fails < MaxFailures
    /\ req' = [req EXCEPT ![p] =
                  [res.r EXCEPT !.calls = @ + (IF IssuesCall(req[p]) THEN 1 ELSE 0),
                                !.failed = @ \/ ~ok]]
    /\ bucket' = res.b
    /\ fails' = IF ok THEN fails ELSE fails + 1
    /\ UNCHANGED <<started, used>>

GetArtists(p) ==
    /\ Running(req[p]) /\ req[p].op = "getArtists"
    /\ \E ok \in BOOLEAN : Handle(p, ok, getArtists(req[p], bucket, ok))
CreateArtist(p) ==
    /\ Running(req[p]) /\ req[p].op = "createArtist"
    /\ \E ok \in BOOLEAN : Handle(p, ok, createArtist(req[p], bucket, ok))
GetArtist(p) ==
    /\ Running(req[p]) /\ req[p].op = "getArtist"
    /\ \E ok \in BOOLEAN : Handle(p, ok, getArtist(req[p], bucket, ok))
UpdateArtist(p) ==
    /\ Running(req[p]) /\ req[p].op = "updateArtist"
    /\ \E ok \in BOOLEAN : Handle(p, ok, updateArtist(req[p], bucket, ok))
DeleteArtist(p) ==
    /\ Running(req[p]) /\ req[p].op = "deleteArtist"
    /\ \E ok \in BOOLEAN : Handle(p, ok, deleteArtist(req[p], bucket, ok))
GetArtistPhotos(p) ==
    /\ Running(req[p]) /\ req[p].op = "getArtistPhotos"
    /\ \E ok \in BOOLEAN : Handle(p, ok, getArtistPhotos(req[p], bucket, ok))
UploadPhoto(p) ==
    /\ Running(req[p]) /\ req[p].op = "uploadPhoto"
    /\ \E ok \in BOOLEAN : Handle(p, ok, uploadPhoto(req[p], bucket, ok))
DeletePhoto(p) ==
    /\ Running(req[p]) /\ req[p].op = "deletePhoto"
    /\ \E ok \in BOOLEAN : Handle(p, ok, deletePhoto(req[p], bucket, ok))
SetMainPhoto(p) ==
    /\ Running(req[p]) /\ req[p].op = "setMainPhoto"
    /\ \E ok \in BOOLEAN : Handle(p, ok, setMainPhoto(req[p], bucket, ok))
GetFilmography(p) ==
    /\ Running(req[p]) /\ req[p].op = "getFilmography"
    /\ \E ok \in BOOLEAN : Handle(p, ok, getFilmography(req[p], bucket, ok))
UpdateFilmography(p) ==
    /\ Running(req[p]) /\ req[p].op = "updateFilmography"
    /\ \E ok \in BOOLEAN : Handle(p, ok, updateFilmography(req[p], bucket, ok))
ExportArtistsData(p) ==
    /\ Running(req[p]) /\ req[p].op = "exportArtistsData"
    /\ \E ok \in BOOLEAN : Handle(p, ok, exportArtistsData(req[p], bucket, ok))
ExportFilmographyData(p) ==
    /\ Running(req[p]) /\ req[p].op = "exportFilmographyData"
    /\ \E ok \in BOOLEAN : Handle(p, ok, exportFilmographyData(req[p], bucket, ok))
NotFound(p) ==
    /\ Running(req[p]) /\ req[p].op = "notFound"
    /\ \E ok \in BOOLEAN : Handle(p, ok, notFound(req[p], bucket, ok))
Preflight(p) ==
    /\ Running(req[p]) /\ req[p].op = "preflight"
    /\ \E ok \in BOOLEAN : Handle(p, ok, preflight(req[p], bucket, ok))
Static(p) ==
    /\ Running(req[p]) /\ req[p].op = "static"
    /\ \E ok \in BOOLEAN : Handle(p, ok, static(req[p], bucket, ok))

Step(p) ==
    \/ GetArtists(p)
    \/ CreateArtist(p)
    \/ GetArtist(p)
    \/ UpdateArtist(p)
    \/ DeleteArtist(p)
    \/ GetArtistPhotos(p)
    \/ UploadPhoto(p)
    \/ DeletePhoto(p)
    \/ SetMainPhoto(p)
    \/ GetFilmography(p)
    \/ UpdateFilmography(p)
    \/ ExportArtistsData(p)
    \/ ExportFilmographyData(p)
    \/ NotFound(p)
    \/ Preflight(p)
    \/ Static(p)

NoneRunning == \A q \in Procs : ~Running(req[q])

\* Requests handled one at a time.
Next ==
    \E p \in Procs :
        \/ NoneRunning /\ started < MaxReqs /\ Call(p)
        \/ NoneRunning /\ started < MaxReqs /\ Fetch(p)
        \/ Step(p)

Spec == Init /\ [][Next]_vars

\* Requests interleaved at their storage calls.
NextConc ==
    \E p \in Procs :
        \/ started < MaxConcReqs /\ Call(p)
        \/ started < MaxConcReqs /\ Fetch(p)
        \/ Step(p)

SpecConc == Init /\ [][NextConc]_vars

\* ------------------------------------------------------------------ claims

\* The artist collection as it is stored.
Stored == ReadArtists(bucket, TRUE)

Done(r) == r.pc = "done"

\* The request in slot q is the one started right after the one in slot p.
Follows(q, p) == req[q].n = req[p].n + 1

\* No request has been started after the one in slot p.
Latest(p) == req[p].n = started

IdsOf(artists) == {artists[i].id : i \in 1..Len(artists)}

WithId(artists, id) == {i \in 1..Len(artists) : artists[i].id = id}

RichSeed == MainPhotoKey("a") \in DOMAIN bucket

\* C1: a createArtist that ran with no storage failure and a fresh id,
\* followed by a getArtists with no storage failure: the list has exactly one
\* record with the id the create returned, and its name is the name sent.
C1_CreateThenList ==
    \A p \in Procs, q \in Procs :
        ( /\ req[p].op = "createArtist" /\ Done(req[p])
          /\ req[p].status = 200 /\ ~req[p].failed /\ req[p].fresh
          /\ req[q].op = "getArtists" /\ Done(req[q]) /\ ~req[q].failed
          /\ Follows(q, p) )
        => /\ req[q].status = 200
           /\ Cardinality(WithId(req[q].resp, req[p].resp.artistId)) = 1
           /\ \A i \in WithId(req[q].resp, req[p].resp.artistId) :
                 req[q].resp[i].name = req[p].body.name

\* C1's case: the create was made on a collection that had a record, and the
\* list that follows has both.
C1_Witness ==
    \E p \in Procs, q \in Procs :
        /\ req[p].op = "createArtist" /\ Done(req[p])
        /\ req[p].status = 200 /\ ~req[p].failed /\ req[p].fresh
        /\ req[q].op = "getArtists" /\ Done(req[q]) /\ ~req[q].failed
        /\ Follows(q, p)
        /\ Len(req[q].resp) = 2
        /\ req[q].resp[2].id = req[p].genId
        /\ req[q].resp[1].mainPhoto # None

\* C2: the step of an updateArtist whose id matches no stored record answers
\* 404 and writes nothing, whatever the body.
C2_UpdateMissing ==
    [][ \A p \in Procs :
          ( /\ req[p].op = "updateArtist" /\ req[p].pc = "start"
            /\ IndexOfId(Stored, req[p].artistId) = 0
            /\ req'[p] # req[p] )
          => /\ req'[p].pc = "done"
             /\ req'[p].status = 404
             /\ req'[p].writes = <<>>
             /\ bucket' = bucket ]_vars

\* C2's case: an update with a filmography in its body was answered 404 on
\* a collection that has records.
C2_Witness ==
    \E p \in Procs :
        /\ req[p].op = "updateArtist" /\ Done(req[p])
        /\ "filmography" \in DOMAIN req[p].body
        /\ req[p].status = 404
        /\ Stored # <<>>
        /\ req[p].artistId \notin IdsOf(Stored)

\* C3: after a deleteArtist answered success, with requests served one at a
\* time, no stored record has the id, the getArtists that follows lists no
\* record with the id, and the getArtist that follows for the id answers 404.
C3_DeleteRemoves ==
    \A p \in Procs :
        (req[p].op = "deleteArtist" /\ Done(req[p]) /\ req[p].status = 200)
        => /\ Latest(p) => req[p].artistId \notin IdsOf(Stored)
           /\ \A q \in Procs :
                 (Follows(q, p) /\ Done(req[q]))
                 => /\ req[q].op = "getArtists"
                       => /\ req[q].status = 200
                          /\ req[p].artistId \notin IdsOf(req[q].resp)
                    /\ (req[q].op = "getArtist"
                        /\ req[q].artistId = req[p].artistId)
                       => req[q].status = 404

\* C3's case: two records shared the id, the delete removed both, and the
\* get that followed answered 404.
C3_Witness ==
    \E p \in Procs, q \in Procs :
        /\ started = 2 /\ used = {"a", "b"}
        /\ req[p].op = "deleteArtist" /\ req[p].artistId = "a"
        /\ Done(req[p]) /\ req[p].status = 200 /\ ~req[p].failed
        /\ Follows(q, p)
        /\ req[q].op = "getArtist" /\ req[q].artistId = "a"
        /\ Done(req[q]) /\ req[q].status = 404
        /\ Stored = <<>>

\* C4: after an updateFilmography answered success the stored document is
\* the document of the body and nothing else, and the getFilmography that
\* follows for the same id, with no storage failure, returns that document.
C4_FilmographyRoundTrip ==
    \A p \in Procs :
        (req[p].op = "updateFilmography" /\ Done(req[p])
         /\ req[p].status = 200)
        => /\ Latest(p)
              => /\ FilmographyKey(req[p].artistId) \in DOMAIN bucket
                 /\ JSONParseFilm(bucket[FilmographyKey(req[p].artistId)].body)
                        = req[p].body
           /\ \A q \in Procs :
                 ( /\ Follows(q, p) /\ req[q].op = "getFilmography"
                   /\ req[q].artistId = req[p].artistId
                   /\ Done(req[q]) /\ ~req[q].failed )
                 => /\ req[q].status = 200
                    /\ req[q].resp = req[p].body

\* C4's case: the artist had a document with other members, and the get
\* returns the new one alone.
C4_Witness ==
    \E p \in Procs, q \in Procs :
        /\ RichSeed
        /\ req[p].op = "updateFilmography" /\ req[p].artistId = "a"
        /\ req[p].body = FilmPartial
        /\ Done(req[p]) /\ req[p].status = 200
        /\ Follows(q, p) /\ req[q].op = "getFilmography"
        /\ req[q].artistId = "a" /\ Done(req[q]) /\ ~req[q].failed
        /\ DOMAIN req[q].resp = {"movies"}

\* C5: the step of a getFilmography for an id with no stored document
\* answers 200 with the three empty lists and writes nothing.
C5_EmptyFilmography ==
    [][ \A p \in Procs :
          ( /\ req[p].op = "getFilmography" /\ req[p].pc = "start"
            /\ FilmographyKey(req[p].artistId) \notin DOMAIN bucket
            /\ req'[p] # req[p] )
          => /\ req'[p].pc = "done"
             /\ req'[p].status = 200
             /\ req'[p].resp =
                   [dramas |-> <<>>, movies |-> <<>>, commercials |-> <<>>]
             /\ req'[p].writes = <<>>
             /\ bucket' = bucket ]_vars

\* C5's case: an artist of the collection has no document and was asked for.
C5_Witness ==
    \E p \in Procs :
        /\ req[p].op = "getFilmography" /\ Done(req[p]) /\ Latest(p)
        /\ req[p].artistId \in IdsOf(Stored)
        /\ FilmographyKey(req[p].artistId) \notin DOMAIN bucket
        /\ req[p].status = 200

\* The bucket c is the bucket b with the object at key put and no other
\* change.
OnlyPut(b, c, key) ==
    /\ DOMAIN c = DOMAIN b \cup {key}
    /\ \A k \in DOMAIN b \ {key} : c[k] = b[k]

\* C6: the step of an uploadPhoto with no photo field answers 400 and writes
\* nothing; with the field, a success response means exactly one object was
\* written, under the photos folder of the artist with the returned id as
\* its file name, and any other response means nothing was written.
C6_UploadPhoto ==
    [][ \A p \in Procs :
          ( /\ req[p].op = "uploadPhoto" /\ req[p].pc = "start"
            /\ req'[p] # req[p] )
          => /\ req'[p].pc = "done"
             /\ IF req[p].body.photo = None
                THEN /\ req'[p].status = 400
                     /\ req'[p].writes = <<>>
                     /\ bucket' = bucket
                ELSE IF req'[p].status = 200
                THEN /\ Len(req'[p].writes) = 1
                     /\ req'[p].writes[1][1] = "put"
                     /\ StartsWith(req'[p].writes[1][2],
                                   "artists/" \o req[p].artistId \o "/photos/"
                                       \o req'[p].resp.photoId \o ".")
                     /\ OnlyPut(bucket, bucket', req'[p].writes[1][2])
                     /\ req'[p].writes[1][2] \in DOMAIN bucket'
                ELSE /\ req'[p].status = 500
                     /\ req'[p].writes = <<>>
                     /\ bucket' = bucket ]_vars

\* C6's case: an upload with a file was answered success and its object is
\* in the bucket.
C6_Witness ==
    \E p \in Procs :
        /\ req[p].op = "uploadPhoto" /\ Done(req[p]) /\ Latest(p)
        /\ req[p].status = 200
        /\ req[p].writes = << <<"put", "artists/b/photos/pq.png">> >>
        /\ "artists/b/photos/pq.png" \in DOMAIN bucket

\* C7: a request one of whose storage calls threw is answered 500.
C7_FailureGives500 ==
    \A p \in Procs :
        (Done(req[p]) /\ req[p].failed) => req[p].status = 500

\* C8: the write of a createArtist stores the list the request read with its
\* own record last; what other requests stored since the read is not in it.
C8_LastWriteWins ==
    [][ \A p \in Procs :
          ( /\ req[p].op = "createArtist" /\ req[p].pc = "put"
            /\ req'[p] # req[p] /\ req'[p].status # 500 )
          => LET after == ReadArtists(bucket', TRUE)
             IN /\ Len(after) = Len(req[p].artists) + 1
                /\ SubSeq(after, 1, Len(after) - 1) = req[p].artists
                /\ after[Len(after)].id = req[p].genId ]_vars

\* C8's case: two creates with different ids and no storage failure have
\* both answered success, and the stored collection has the record of one
\* and not of the other.
C8_Witness ==
    \E p \in Procs, q \in Procs :
        /\ req[p].op = "createArtist" /\ req[q].op = "createArtist"
        /\ Done(req[p]) /\ Done(req[q])
        /\ req[p].status = 200 /\ req[q].status = 200
        /\ ~req[p].failed /\ ~req[q].failed
        /\ req[p].genId # req[q].genId
        /\ req[q].genId \in IdsOf(Stored)
        /\ req[p].genId \notin IdsOf(Stored)

\* The segments of s between its '/' characters, from position i on.
RECURSIVE SegmentsFrom(_, _)
SegmentsFrom(s, i) ==
    LET k == SegmentRun(s, i)
    IN IF i + k > Len(s) THEN <<SubSeq(s, i, i + k - 1)>>
       ELSE <<SubSeq(s, i, i + k - 1)>> \o SegmentsFrom(s, i + k + 1)

Segments(s) == SegmentsFrom(s, 1)

\* A route path read as written: each (.+) stands for one segment that is
\* not empty, every other segment for itself.
ReadAsWritten(routePath, path) ==
    LET want == Segments(routePath)
        have == Segments(path)
    IN /\ Len(want) = Len(have)
       /\ \A i \in 1..Len(want) :
             IF want[i] = "(.+)" THEN have[i] # "" ELSE have[i] = want[i]

CapturesAsWritten(routePath, path) ==
    LET want == Segments(routePath)
        have == Segments(path)
        at == SelectSeq([i \in 1..Len(want) |-> i], LAMBDA i : want[i] = "(.+)")
    IN [j \in 1..Len(at) |-> have[at[j]]]

EntryAsWritten(i, method, path) ==
    /\ method = RouteMethod(routes[i].pattern)
    /\ ReadAsWritten(RoutePath(routes[i].pattern), path)

FirstAsWritten(method, path) ==
    IF \E i \in 1..Len(routes) : EntryAsWritten(i, method, path)
    THEN CHOOSE i \in 1..Len(routes) :
            /\ EntryAsWritten(i, method, path)
            /\ \A j \in 1..(i - 1) : ~EntryAsWritten(j, method, path)
    ELSE 0

\* A request that fetch hands to the router.
Routed(r) ==
    r.method \notin {"", "OPTIONS"} /\ StartsWith(r.path, "/api/")

DeletePhotoRoute == "/api/artists/(.+)/photos/(.+)"

\* C9: a DELETE of /api/artists/{artistId}/photos/{photoId} runs deletePhoto
\* with (artistId, photoId), is answered success, and leaves no object whose
\* key starts with artists/{artistId}/photos/{photoId}.
C9_DeletePhotoRouted ==
    \A p \in Procs :
        ( /\ Routed(req[p]) /\ req[p].method = "DELETE"
          /\ ReadAsWritten(DeletePhotoRoute, req[p].path)
          /\ Done(req[p]) /\ ~req[p].failed /\ Latest(p) )
        => LET ids == CapturesAsWritten(DeletePhotoRoute, req[p].path)
           IN /\ req[p].op = "deletePhoto"
              /\ req[p].artistId = ids[1]
              /\ req[p].photoId = ids[2]
              /\ req[p].status = 200
              /\ \A k \in DOMAIN bucket :
                    ~StartsWith(k, PhotoPrefix(ids[1], ids[2]))

\* C10: a routed request runs the handler of the first entry of the table
\* that matches it as written, with the captured segments as parameters;
\* when no entry matches it is answered 404 {error: 'Not Found'} with no
\* storage call.  (An entry that no request reaches is an entry written for
\* requests that run another handler.)
C10_RouterDispatch ==
    \A p \in Procs :
        Routed(req[p])
        => LET k == FirstAsWritten(req[p].method, req[p].path)
           IN IF k = 0
              THEN /\ req[p].op = "notFound"
                   /\ req[p].calls = 0
                   /\ req[p].writes = <<>>
                   /\ Done(req[p])
                      => /\ req[p].status = 404
                         /\ req[p].resp = [error |-> "Not Found"]
              ELSE /\ req[p].op = routes[k].handler
                   /\ LET ids == CapturesAsWritten(
                                     RoutePath(routes[k].pattern), req[p].path)
                      IN /\ req[p].artistId = Param(ids, 1)
                         /\ req[p].photoId = Param(ids, 2)

\* The request in slot p takes a step of its handler.
Steps(p) == Running(req[p]) /\ req'[p] # req[p]

\* The step of the request in slot p is one whose storage call threw.
Threw(p) == Steps(p) /\ fails' = fails + 1

\* C11: in deleteArtist, after the filtered collection has been written, a
\* secondary deletion that throws (the delete of the filmography document,
\* the listing of the artist's objects, the delete of a listed object) does
\* not fail the request: it is answered success.
C11_SecondaryDeleteSwallowed ==
    [][ \A p \in Procs :
          ( /\ req[p].op = "deleteArtist"
            /\ req[p].pc \in {"delFilm", "list", "delPhotos"}
            /\ Threw(p) )
          => /\ req'[p].pc = "done"
             /\ req'[p].status = 200 ]_vars

UniqueIds(artists) ==
    \A i \in 1..Len(artists), j \in 1..Len(artists) :
        artists[i].id = artists[j].id => i = j

\* C12: a step of a createArtist (with a fresh generated id), an
\* updateArtist or a deleteArtist, run with no other request in flight,
\* taken from a collection whose ids are all different leaves a collection
\* whose ids are all different.
C12_UniqueIds ==
    [][ \A p \in Procs :
          ( /\ req[p].op \in {"createArtist", "updateArtist", "deleteArtist"}
            /\ req[p].op = "createArtist" => req[p].fresh
            /\ Steps(p)
            /\ UniqueIds(Stored) )
          => UniqueIds(ReadArtists(bucket', TRUE)) ]_vars

\* C13: the answer of exportArtistsData has, for every record of the stored
\* collection, an entry under the record's name whose filmography is the
\* filmography document of that record's id (the empty document when there
\* is none) and whose mainPhoto is the main-photo URL of that id (null when
\* there is none), also when two records have the same name.
C13_ExportArtistsOwnData ==
    \A p \in Procs :
        ( /\ req[p].op = "exportArtistsData" /\ Done(req[p])
          /\ ~req[p].failed /\ Latest(p) )
        => /\ req[p].status = 200
           /\ \A i \in 1..Len(Stored) :
                 LET artist == Stored[i]
                 IN /\ artist.name \in DOMAIN req[p].resp
                    /\ req[p].resp[artist.name].filmography =
                          FilmBody(FilmographyOrEmpty(bucket, artist.id, TRUE))
                    /\ req[p].resp[artist.name].mainPhoto =
                          getMainPhotoUrl(artist.id, bucket, TRUE)

HasFilmography(b, artistId) == FilmographyKey(artistId) \in DOMAIN b

\* The records of the collection with the name that have a filmography
\* document.
NamedWithFilmography(artists, b, name) ==
    {i \in 1..Len(artists) :
        artists[i].name = name /\ HasFilmography(b, artists[i].id)}

Last(S) == CHOOSE i \in S : \A j \in S : j <= i

\* C14: the answer of exportFilmographyData has exactly the names of the
\* stored records that have a filmography document as its keys; under a name
\* is the document of the last record in collection order with that name
\* that has one.  Records without a document give no key, and the document
\* of an id that is not in the collection is not in the answer.
C14_ExportFilmography ==
    \A p \in Procs :
        ( /\ req[p].op = "exportFilmographyData" /\ Done(req[p])
          /\ ~req[p].failed /\ Latest(p) )
        => /\ req[p].status = 200
           /\ DOMAIN req[p].resp =
                 {Stored[i].name : i \in {j \in 1..Len(Stored) :
                                            HasFilmography(bucket, Stored[j].id)}}
           /\ \A name \in DOMAIN req[p].resp :
                 LET k == Last(NamedWithFilmography(Stored, bucket, name))
                 IN req[p].resp[name] =
                       JSONParseFilm(bucket[FilmographyKey(Stored[k].id)].body)

\* C14's case: two records have the same name and different filmography
\* documents, and the export has answered with the document of the second.
C14_Witness ==
    \E p \in Procs :
        /\ req[p].op = "exportFilmographyData" /\ Done(req[p])
        /\ ~req[p].failed /\ Latest(p)
        /\ Len(Stored) = 2
        /\ Stored[1].name = Stored[2].name
        /\ HasFilmography(bucket, Stored[1].id)
        /\ HasFilmography(bucket, Stored[2].id)
        /\ bucket[FilmographyKey(Stored[1].id)] # bucket[FilmographyKey(Stored[2].id)]
        /\ req[p].resp[Stored[2].name] = FilmPartial

\* C15: a setMainPhoto whose prefix artists/{artistId}/photos/{photoId}
\* matches no stored key is answered 404 and writes nothing; otherwise its
\* only write puts the body and content type of the first listed match at
\* artists/{artistId}/main.jpg.  The main photo is a copy: a step of
\* deletePhoto leaves every main.jpg as it was, and a getArtist of an artist
\* that has a main.jpg reports its URL.
C15_SetMainPhoto ==
    /\ [][ \A p \in Procs :
             (req[p].op = "setMainPhoto" /\ Steps(p))
             => LET keys == BucketList(bucket, PhotoPrefix(req[p].artistId,
                                                           req[p].body.photoId))
                    main == MainPhotoKey(req[p].artistId)
                IN IF Threw(p)
                   THEN /\ bucket' = bucket
                        /\ req'[p].status = 500 /\ req'[p].writes = <<>>
                   ELSE IF keys = <<>>
                   THEN /\ bucket' = bucket
                        /\ req'[p].pc = "done"
                        /\ req'[p].status = 404 /\ req'[p].writes = <<>>
                   ELSE IF req[p].pc = "put"
                   THEN /\ req'[p].pc = "done" /\ req'[p].status = 200
                        /\ req'[p].writes = << <<"put", main>> >>
                        /\ OnlyPut(bucket, bucket', main)
                        /\ bucket'[main] = bucket[keys[1]]
                   ELSE /\ bucket' = bucket
                        /\ req'[p].pc # "done" ]_vars
    /\ [][ \A p \in Procs :
             (req[p].op = "deletePhoto" /\ Steps(p))
             => \A a \in ArtistIds :
                   MainPhotoKey(a) \in DOMAIN bucket
                   => /\ MainPhotoKey(a) \in DOMAIN bucket'
                      /\ bucket'[MainPhotoKey(a)] = bucket[MainPhotoKey(a)] ]_vars
    /\ [](\A p \in Procs :
             ( /\ req[p].op = "getArtist" /\ Done(req[p])
               /\ ~req[p].failed /\ Latest(p) /\ req[p].status = 200
               /\ MainPhotoKey(req[p].artistId) \in DOMAIN bucket )
             => req[p].resp.mainPhoto =
                   Some(getR2ObjectUrl(MainPhotoKey(req[p].artistId))))

\* C15's case: a setMainPhoto copied the photo pq over a main photo made
\* from another photo, the deletePhoto that followed removed pq, and
\* main.jpg still has the bytes of pq.
C15_Witness ==
    \E p \in Procs, q \in Procs :
        /\ req[p].op = "setMainPhoto" /\ Done(req[p]) /\ req[p].status = 200
        /\ req[p].artistId = "a" /\ req[p].body.photoId = "pq"
        /\ req[q].op = "deletePhoto" /\ Done(req[q]) /\ req[q].status = 200
        /\ req[q].artistId = "a" /\ req[q].photoId = "pq"
        /\ Follows(q, p)
        /\ BucketList(bucket, PhotoPrefix("a", "pq")) = <<>>
        /\ MainPhotoKey("a") \in DOMAIN bucket
        /\ bucket[MainPhotoKey("a")] = [body |-> "noext", contentType |-> "image/jpeg"]

\* The extension of a file name as the claim reads it: the text after the
\* last '.', and jpg for a name with no '.'.
ExtensionOrDefault(name) ==
    IF FirstIndexOf(name, ".", 1) = 0 THEN "jpg" ELSE SplitDotPop(name)

\* C16: an uploadPhoto that answered success stored its object at
\* artists/{artistId}/photos/{photoId}.{ext}, ext being the text after the
\* last '.' of the file name, or jpg when the file name has no '.'.
C16_UploadExtension ==
    \A p \in Procs :
        ( /\ req[p].op = "uploadPhoto" /\ Done(req[p])
          /\ req[p].status = 200 )
        => req[p].writes =
              << <<"put", PhotoKey(req[p].artistId, req[p].resp.photoId,
                                   ExtensionOrDefault(req[p].body.photo[1].name))>> >>

\* The records without the main-photo URL that a listing attaches to them.
WithoutMainPhoto(artists) ==
    [i \in 1..Len(artists) |-> [artists[i] EXCEPT !.mainPhoto = None]]

\* The list after has records of the list before only, in the order they
\* have there.
OrderKept(after, before) ==
    \E f \in [1..Len(after) -> 1..Len(before)] :
        /\ \A i \in 1..Len(after) : after[i] = before[f[i]]
        /\ \A i \in 1..Len(after), j \in 1..Len(after) : i < j => f[i] < f[j]

Front(s) == SubSeq(s, 1, Len(s) - 1)

\* The object at data/artists.json, when there is one.
StoredObject(b) == IF ArtistsKey \in DOMAIN b THEN <<b[ArtistsKey]>> ELSE <<>>

\* C17: with requests run one at a time the stored collection changes only
\* in the write of a create, an update or a delete.  The create puts its
\* record last, after the records that were there, in their order; the
\* update leaves the length and every other record as they are and its
\* record at its index; the delete leaves the remaining records in their
\* order (all those with another id, when its read did not fail).
C17_InsertionOrder ==
    [][ \A p \in Procs :
          Steps(p)
          => LET before == Stored
                 after == ReadArtists(bucket', TRUE)
                 written == /\ Len(req'[p].writes) > Len(req[p].writes)
                            /\ req'[p].writes[Len(req'[p].writes)][2] = ArtistsKey
             IN IF ~written THEN StoredObject(bucket') = StoredObject(bucket)
                ELSE CASE req[p].op = "createArtist" ->
                            /\ after # <<>>
                            /\ after[Len(after)].id = req[p].genId
                            /\ after[Len(after)].createdAt = Now(req[p])
                            /\ OrderKept(WithoutMainPhoto(Front(after)),
                                         WithoutMainPhoto(before))
                            /\ ~req[p].failed => Len(after) = Len(before) + 1
                       [] req[p].op = "updateArtist" ->
                            LET k == IndexOfId(before, req[p].artistId)
                            IN /\ Len(after) = Len(before)
                               /\ k # 0
                               /\ \A i \in 1..Len(before) :
                                     i # k => after[i] = before[i]
                               /\ after[k].createdAt = before[k].createdAt
                               /\ after[k].updatedAt = Now(req[p])
                       [] req[p].op = "deleteArtist" ->
                            /\ OrderKept(after, before)
                            /\ ~req[p].failed =>
                                  after = SelectSeq(before,
                                      LAMBDA a : a.id # req[p].artistId)
                       [] OTHER -> FALSE ]_vars

\* C17's case: a create put its record after the one that was there, the
\* delete that followed removed the first, and the record of the create is
\* what remains.
C17_Witness ==
    \E p \in Procs, q \in Procs :
        /\ req[p].op = "createArtist" /\ Done(req[p]) /\ req[p].status = 200
        /\ Len(req[p].artists) = 2
        /\ req[p].artists[1].id = "a" /\ req[p].artists[2].id = "b"
        /\ req[q].op = "deleteArtist" /\ Done(req[q]) /\ req[q].status = 200
        /\ req[q].artistId = "a" /\ Follows(q, p)
        /\ Len(Stored) = 1 /\ Stored[1].id = "b"

\* C18: a step of a createArtist or deleteArtist one of whose storage calls
\* threw (the read of data/artists.json among them) leaves every record of
\* the stored collection in it, but for the records the delete is for.
C18_FailedReadKeepsData ==
    [][ \A p \in Procs :
          ( /\ req[p].op \in {"createArtist", "deleteArtist"}
            /\ Steps(p)
            /\ req'[p].failed )
          => LET before == WithoutMainPhoto(Stored)
                 after == WithoutMainPhoto(ReadArtists(bucket', TRUE))
             IN \A i \in 1..Len(before) :
                   (req[p].op = "deleteArtist" => before[i].id # req[p].artistId)
                   => \E j \in 1..Len(after) : after[j] = before[i] ]_vars

\* The object at the key is a photo of the artist with the photo id: it is
\* in the artist's photos folder and its file name without extension is the
\* photo id.
IsPhotoOf(key, artistId, photoId) ==
    /\ StartsWith(key, PhotosPrefix(artistId))
    /\ PhotoIdOfKey(key) = photoId

\* C19: a step of deletePhoto(artistId, photoId) changes no object other
\* than the photos of that artist with that photo id: photos with another
\* photo id, objects of other artists, main.jpg, data/artists.json and the
\* filmography documents stay as they are.
C19_DeletePhotoFrame ==
    [][ \A p \in Procs :
          (req[p].op = "deletePhoto" /\ Steps(p))
          => \A k \in DOMAIN bucket :
                ~IsPhotoOf(k, req[p].artistId, req[p].photoId)
                => k \in DOMAIN bucket' /\ bucket'[k] = bucket[k] ]_vars

\* C20: once a deleteArtist of id X has answered success, the stored
\* collection has no record with id X, whatever the interleaving with a
\* createArtist (of another record, with a fresh id) or an updateArtist
\* (that sends no id) started before the delete, and with no storage
\* failure.
C20_DeleteDurable ==
    \A p \in Procs, q \in Procs :
        ( /\ q # p
          /\ req[p].op = "deleteArtist" /\ Done(req[p]) /\ req[p].status = 200
          /\ req[q].n < req[p].n
          /\ req[q].op \in {"idle", "createArtist", "updateArtist"}
          /\ req[q].op = "createArtist" =>
                req[q].fresh /\ req[q].genId # req[p].artistId
          /\ req[q].op = "updateArtist" => "id" \notin DOMAIN req[q].body
          /\ fails = 0 )
        => req[p].artistId \notin IdsOf(Stored)

\* C21: a step of a createArtist with no storage failure changes the stored
\* collection only by appending its record: every record that was stored is
\* stored afterwards at the same place with the same fields and values,
\* whatever main photos the bucket holds.
C21_CreateOnlyAppends ==
    [][ \A p \in Procs :
          ( /\ req[p].op = "createArtist"
            /\ Steps(p)
            /\ ~req'[p].failed )
          => LET before == Stored
                 after == ReadArtists(bucket', TRUE)
             IN after = before \/ Front(after) = before ]_vars

====
